---- MODULE Spec2Model ----
(***************************************************************************)
(* Model of the financial computation engine of the compound-interest      *)
(* calculator (src/src/calculator.py).                                     *)
(*                                                                         *)
(* Python floats are modelled as exact rationals <<num, den>> in lowest    *)
(* terms with den > 0.  The outcomes Python arithmetic can have besides a  *)
(* real value (ValueError, ZeroDivisionError, a complex value) are         *)
(* modelled explicitly.  A power whose real value is irrational has no     *)
(* rational representation; calls that would need one are not enumerated   *)
(* (see Representable).                                                    *)
(***************************************************************************)
EXTENDS Integers, Sequences, FiniteSets, TLC

\* ------------------------------------------------------------------ bounds
MaxCompounds == 2
MaxSimulations == 2
MaxRoot == 40
MaxLog == 3
MaxBatch == 2
MaxHistory == 2
MaxTemplates == 1

\* ------------------------------------------------- rational arithmetic
Abs(i) == IF i < 0 THEN -i ELSE i

RECURSIVE Gcd(_, _)
Gcd(a, b) == IF b = 0 THEN a ELSE Gcd(b, a % b)

\* Every operation binds its operands to their values before it uses them,
\* so that an operand is evaluated once however often it is referred to.

\* the rational p/q (q # 0) in lowest terms with a positive denominator
Rat(p0, q0) ==
    CHOOSE r \in {<<(IF q < 0 THEN -1 ELSE 1) * (p \div g),
                    (IF q < 0 THEN -1 ELSE 1) * (q \div g)>> :
                     p \in {p0}, q \in {q0}, g \in {Gcd(Abs(p0), Abs(q0))}} : TRUE

RInt(i) == <<i, 1>>
Zero == RInt(0)
One == RInt(1)
Hundred == RInt(100)

Num(x) == x[1]
Den(x) == x[2]

RNeg(x0) == CHOOSE r \in {<<-Num(x), Den(x)>> : x \in {x0}} : TRUE

RAdd(x0, y0) ==
    CHOOSE r \in {Rat(Num(x) * (Den(y) \div Gcd(Den(x), Den(y)))
                        + Num(y) * (Den(x) \div Gcd(Den(x), Den(y))),
                      (Den(x) \div Gcd(Den(x), Den(y))) * Den(y)) :
                     x \in {x0}, y \in {y0}} : TRUE

RSub(x, y) == RAdd(x, RNeg(y))

RMul(x0, y0) ==
    CHOOSE r \in {<<Num(a) * Num(b), Den(a) * Den(b)>> :
                     a \in {Rat(Num(x), Den(y)) : x \in {x0}, y \in {y0}},
                     b \in {Rat(Num(y), Den(x)) : x \in {x0}, y \in {y0}}} : TRUE

\* y # 0
RDiv(x, y0) == RMul(x, CHOOSE r \in {Rat(Den(y), Num(y)) : y \in {y0}} : TRUE)

RLt(x, y) == Num(RSub(x, y)) < 0
RLe(x, y) == Num(RSub(x, y)) <= 0

IsWhole(x) == Den(x) = 1

\* x^k for an integer k >= 0
RECURSIVE RPowNat(_, _)
RPowNat(x, k) == IF k = 0 \/ x = One THEN One ELSE RMul(x, RPowNat(x, k - 1))

\* the natural number whose square is i, or -1 when i is not a perfect square
ISqrt(i) ==
    IF \E s \in 0..MaxRoot : s * s = i
    THEN CHOOSE s \in 0..MaxRoot : s * s = i
    ELSE -1

\* x >= 0 has a rational square root
HasRSqrt(x) == ISqrt(Num(x)) >= 0 /\ ISqrt(Den(x)) >= 0
RSqrt(x) == <<ISqrt(Num(x)), ISqrt(Den(x))>>

\* ------------------------------------------------- Python float operations
\* The model can hold base^expo exactly: the exponent is whole, or the base
\* is not positive (the result is 0 or an error), or the exponent is a
\* multiple of 1/2 and the base has a rational square root.
Representable(base, expo) ==
    \/ IsWhole(expo)
    \/ ~RLt(Zero, base)
    \/ Den(expo) = 2 /\ HasRSqrt(base)

\* x^y for real x > 0 (or whole y and x # 0), Representable(x, y)
RPow(x, y) ==
    LET r == IF IsWhole(y) THEN x ELSE RSqrt(x)
        k == Num(y)
    IN  IF k >= 0 THEN RPowNat(r, k) ELSE RDiv(One, RPowNat(r, -k))

Value(v) == [status |-> "ok", v |-> v]
Raise(e) == [status |-> e, v |-> Zero]

\* math.pow(x, y): ValueError for 0 to a negative power and for a negative
\* base with a fractional exponent
math_pow(x, y) ==
    IF x = Zero
    THEN IF RLt(y, Zero) THEN Raise("ValueError")
         ELSE IF y = Zero THEN Value(One) ELSE Value(Zero)
    ELSE IF RLt(x, Zero) /\ ~IsWhole(y) THEN Raise("ValueError")
    ELSE Value(RPow(x, y))

\* x ** y on floats: ZeroDivisionError for 0 to a negative power; a negative
\* base with a fractional exponent gives a complex number
float_pow(x, y) ==
    IF x = Zero
    THEN IF RLt(y, Zero) THEN Raise("ZeroDivisionError")
         ELSE IF y = Zero THEN Value(One) ELSE Value(Zero)
    ELSE IF RLt(x, Zero) /\ ~IsWhole(y) THEN Raise("complex")
    ELSE Value(RPow(x, y))

\* ------------------------------------------------------------ the engine
Pair(a, i) == [status |-> "ok", amount |-> a, interest |-> i]
RaisePair(e) == [status |-> e, amount |-> Zero, interest |-> Zero]

\* calculate with the tax charged on the whole amount
calculate_tax_on_amount(principal, rate, time, n, tax_rate, fee_rate) ==
    IF n = 0 THEN RaisePair("ZeroDivisionError")
    ELSE
    LET rate_decimal == RDiv(rate, Hundred)
        tax_rate_decimal == RDiv(tax_rate, Hundred)
        fee_rate_decimal == RDiv(fee_rate, Hundred)
        pw == math_pow(RAdd(One, RDiv(rate_decimal, RInt(n))), RMul(RInt(n), time))
        amount == RMul(principal, pw.v)
        interest == RSub(amount, principal)
        tax == RMul(amount, tax_rate_decimal)
        fee == RMul(amount, fee_rate_decimal)
        final_amount == RSub(RSub(amount, tax), fee)
        final_interest == RSub(RSub(interest, tax), fee)
    IN  IF pw.status # "ok" THEN RaisePair(pw.status)
        ELSE Pair(final_amount, final_interest)

\* calculate with the fee charged on the interest only
calculate_fee_on_interest(principal, rate, time, n, tax_rate, fee_rate) ==
    IF n = 0 THEN RaisePair("ZeroDivisionError")
    ELSE
    LET rate_decimal == RDiv(rate, Hundred)
        tax_rate_decimal == RDiv(tax_rate, Hundred)
        fee_rate_decimal == RDiv(fee_rate, Hundred)
        pw == math_pow(RAdd(One, RDiv(rate_decimal, RInt(n))), RMul(RInt(n), time))
        amount == RMul(principal, pw.v)
        interest == RSub(amount, principal)
        tax == RMul(interest, tax_rate_decimal)
        fee == RMul(interest, fee_rate_decimal)
        final_amount == RSub(RSub(amount, tax), fee)
        final_interest == RSub(RSub(interest, tax), fee)
    IN  IF pw.status # "ok" THEN RaisePair(pw.status)
        ELSE Pair(final_amount, final_interest)

\* calculate discounting the principal over the periods instead of compounding it
calculate_discounting(principal, rate, time, n, tax_rate, fee_rate) ==
    IF n = 0 THEN RaisePair("ZeroDivisionError")
    ELSE
    LET rate_decimal == RDiv(rate, Hundred)
        tax_rate_decimal == RDiv(tax_rate, Hundred)
        fee_rate_decimal == RDiv(fee_rate, Hundred)
        pw == math_pow(RAdd(One, RDiv(rate_decimal, RInt(n))), RNeg(RMul(RInt(n), time)))
        amount == RMul(principal, pw.v)
        interest == RSub(amount, principal)
        tax == RMul(interest, tax_rate_decimal)
        fee == RMul(amount, fee_rate_decimal)
        final_amount == RSub(RSub(amount, tax), fee)
        final_interest == RSub(RSub(interest, tax), fee)
    IN  IF pw.status # "ok" THEN RaisePair(pw.status)
        ELSE Pair(final_amount, final_interest)

calculate(principal, rate, time, n, tax_rate, fee_rate) ==
    IF n = 0 THEN RaisePair("ZeroDivisionError")
    ELSE
    LET rate_decimal == RDiv(rate, Hundred)
        tax_rate_decimal == RDiv(tax_rate, Hundred)
        fee_rate_decimal == RDiv(fee_rate, Hundred)
        pw == math_pow(RAdd(One, RDiv(rate_decimal, RInt(n))), RMul(RInt(n), time))
        amount == RMul(principal, pw.v)
        interest == RSub(amount, principal)
        tax == RMul(interest, tax_rate_decimal)
        fee == RMul(amount, fee_rate_decimal)
        final_amount == RSub(RSub(amount, tax), fee)
        final_interest == RSub(RSub(interest, tax), fee)
    IN  IF pw.status # "ok" THEN RaisePair(pw.status)
        ELSE Pair(final_amount, final_interest)

\* calculate_regular_savings with every payment made at the start of its period
calculate_regular_savings_due(payment, rate, time, n, tax_rate, fee_rate) ==
    LET rate_decimal == RDiv(rate, Hundred)
        tax_rate_decimal == RDiv(tax_rate, Hundred)
        fee_rate_decimal == RDiv(fee_rate, Hundred)
        zero_rate == rate_decimal = Zero
        per_period == RDiv(rate_decimal, RInt(n))
        pw == float_pow(RAdd(One, per_period), RMul(RInt(n), time))
        fv == IF zero_rate
              THEN RMul(RMul(payment, RInt(n)), time)
              ELSE RMul(RMul(payment, RDiv(RSub(pw.v, One), per_period)), RAdd(One, per_period))
        total_invested == IF zero_rate THEN fv
                          ELSE RMul(RMul(payment, RInt(n)), time)
        interest == IF zero_rate THEN Zero ELSE RSub(fv, total_invested)
        tax == RMul(interest, tax_rate_decimal)
        fee == RMul(fv, fee_rate_decimal)
        final_amount == RSub(RSub(fv, tax), fee)
        final_interest == RSub(RSub(interest, tax), fee)
    IN  IF zero_rate THEN Pair(final_amount, final_interest)
        ELSE IF n = 0 THEN RaisePair("ZeroDivisionError")
        ELSE IF pw.status # "ok" THEN RaisePair(pw.status)
        ELSE Pair(final_amount, final_interest)

\* calculate_regular_savings with the fee charged on the balance left after tax
calculate_regular_savings_fee_after_tax(payment, rate, time, n, tax_rate, fee_rate) ==
    LET rate_decimal == RDiv(rate, Hundred)
        tax_rate_decimal == RDiv(tax_rate, Hundred)
        fee_rate_decimal == RDiv(fee_rate, Hundred)
        zero_rate == rate_decimal = Zero
        per_period == RDiv(rate_decimal, RInt(n))
        pw == float_pow(RAdd(One, per_period), RMul(RInt(n), time))
        fv == IF zero_rate
              THEN RMul(RMul(payment, RInt(n)), time)
              ELSE RMul(payment, RDiv(RSub(pw.v, One), per_period))
        total_invested == IF zero_rate THEN fv
                          ELSE RMul(RMul(payment, RInt(n)), time)
        interest == IF zero_rate THEN Zero ELSE RSub(fv, total_invested)
        tax == RMul(interest, tax_rate_decimal)
        fee == RMul(RSub(fv, tax), fee_rate_decimal)
        final_amount == RSub(RSub(fv, tax), fee)
        final_interest == RSub(RSub(interest, tax), fee)
    IN  IF zero_rate THEN Pair(final_amount, final_interest)
        ELSE IF n = 0 THEN RaisePair("ZeroDivisionError")
        ELSE IF pw.status # "ok" THEN RaisePair(pw.status)
        ELSE Pair(final_amount, final_interest)

\* calculate_regular_savings without the branch for a zero rate: the
\* annuity formula divides by the per-period rate
calculate_regular_savings_no_zero_branch(payment, rate, time, n, tax_rate, fee_rate) ==
    LET rate_decimal == RDiv(rate, Hundred)
        tax_rate_decimal == RDiv(tax_rate, Hundred)
        fee_rate_decimal == RDiv(fee_rate, Hundred)
        zero_rate == rate_decimal = Zero
        per_period == RDiv(rate_decimal, RInt(n))
        pw == float_pow(RAdd(One, per_period), RMul(RInt(n), time))
        fv == IF zero_rate
              THEN RMul(RMul(payment, RInt(n)), time)
              ELSE RMul(payment, RDiv(RSub(pw.v, One), per_period))
        total_invested == IF zero_rate THEN fv
                          ELSE RMul(RMul(payment, RInt(n)), time)
        interest == IF zero_rate THEN Zero ELSE RSub(fv, total_invested)
        tax == RMul(interest, tax_rate_decimal)
        fee == RMul(fv, fee_rate_decimal)
        final_amount == RSub(RSub(fv, tax), fee)
        final_interest == RSub(RSub(interest, tax), fee)
    IN  IF zero_rate THEN RaisePair("ZeroDivisionError")
        ELSE IF n = 0 THEN RaisePair("ZeroDivisionError")
        ELSE IF pw.status # "ok" THEN RaisePair(pw.status)
        ELSE Pair(final_amount, final_interest)

\* calculate_regular_savings whose zero-rate branch sums the payments of the
\* whole years only
calculate_regular_savings_whole_years(payment, rate, time, n, tax_rate, fee_rate) ==
    LET rate_decimal == RDiv(rate, Hundred)
        tax_rate_decimal == RDiv(tax_rate, Hundred)
        fee_rate_decimal == RDiv(fee_rate, Hundred)
        zero_rate == rate_decimal = Zero
        per_period == RDiv(rate_decimal, RInt(n))
        pw == float_pow(RAdd(One, per_period), RMul(RInt(n), time))
        fv == IF zero_rate
              THEN RMul(RMul(payment, RInt(n)), RInt(Num(time) \div Den(time)))
              ELSE RMul(payment, RDiv(RSub(pw.v, One), per_period))
        total_invested == IF zero_rate THEN fv
                          ELSE RMul(RMul(payment, RInt(n)), time)
        interest == IF zero_rate THEN Zero ELSE RSub(fv, total_invested)
        tax == RMul(interest, tax_rate_decimal)
        fee == RMul(fv, fee_rate_decimal)
        final_amount == RSub(RSub(fv, tax), fee)
        final_interest == RSub(RSub(interest, tax), fee)
    IN  IF zero_rate THEN Pair(final_amount, final_interest)
        ELSE IF n = 0 THEN RaisePair("ZeroDivisionError")
        ELSE IF pw.status # "ok" THEN RaisePair(pw.status)
        ELSE Pair(final_amount, final_interest)

calculate_regular_savings(payment, rate, time, n, tax_rate, fee_rate) ==
    LET rate_decimal == RDiv(rate, Hundred)
        tax_rate_decimal == RDiv(tax_rate, Hundred)
        fee_rate_decimal == RDiv(fee_rate, Hundred)
        zero_rate == rate_decimal = Zero
        per_period == RDiv(rate_decimal, RInt(n))
        pw == float_pow(RAdd(One, per_period), RMul(RInt(n), time))
        fv == IF zero_rate
              THEN RMul(RMul(payment, RInt(n)), time)
              ELSE RMul(payment, RDiv(RSub(pw.v, One), per_period))
        total_invested == IF zero_rate THEN fv
                          ELSE RMul(RMul(payment, RInt(n)), time)
        interest == IF zero_rate THEN Zero ELSE RSub(fv, total_invested)
        tax == RMul(interest, tax_rate_decimal)
        fee == RMul(fv, fee_rate_decimal)
        final_amount == RSub(RSub(fv, tax), fee)
        final_interest == RSub(RSub(interest, tax), fee)
    IN  IF zero_rate THEN Pair(final_amount, final_interest)
        ELSE IF n = 0 THEN RaisePair("ZeroDivisionError")
        ELSE IF pw.status # "ok" THEN RaisePair(pw.status)
        ELSE Pair(final_amount, final_interest)

\* calculate_principal multiplying by the growth factor
calculate_principal_compounding(target_amount, rate, time, n) ==
    LET rate_decimal == RDiv(rate, Hundred)
        pw == math_pow(RAdd(One, RDiv(rate_decimal, RInt(n))), RMul(RInt(n), time))
        denominator == pw.v
    IN  IF rate_decimal = Zero THEN Value(target_amount)
        ELSE IF n = 0 THEN Raise("ZeroDivisionError")
        ELSE IF pw.status # "ok" THEN Raise(pw.status)
        ELSE IF denominator = Zero THEN Raise("ZeroDivisionError")
        ELSE Value(RMul(target_amount, denominator))

\* calculate_principal discounting over `time` periods instead of n * time
calculate_principal_yearly(target_amount, rate, time, n) ==
    LET rate_decimal == RDiv(rate, Hundred)
        pw == math_pow(RAdd(One, RDiv(rate_decimal, RInt(n))), time)
        denominator == pw.v
    IN  IF rate_decimal = Zero THEN Value(target_amount)
        ELSE IF n = 0 THEN Raise("ZeroDivisionError")
        ELSE IF pw.status # "ok" THEN Raise(pw.status)
        ELSE IF denominator = Zero THEN Raise("ZeroDivisionError")
        ELSE Value(RDiv(target_amount, denominator))

calculate_principal(target_amount, rate, time, n) ==
    LET rate_decimal == RDiv(rate, Hundred)
        pw == math_pow(RAdd(One, RDiv(rate_decimal, RInt(n))), RMul(RInt(n), time))
        denominator == pw.v
    IN  IF rate_decimal = Zero THEN Value(target_amount)
        ELSE IF n = 0 THEN Raise("ZeroDivisionError")
        ELSE IF pw.status # "ok" THEN Raise(pw.status)
        ELSE IF denominator = Zero THEN Raise("ZeroDivisionError")
        ELSE Value(RDiv(target_amount, denominator))

\* Results of calculate_time: a rational number of years, float('inf'), or
\* the real number ln(arg) / (n * ln(base)) kept as an expression when it is
\* not found to be rational.
Years(v) == [status |-> "ok", kind |-> "real", v |-> v, arg |-> One, base |-> One, n |-> 1]
Infinity == [status |-> "ok", kind |-> "inf", v |-> Zero, arg |-> One, base |-> One, n |-> 1]
RaiseTime(e) == [status |-> e, kind |-> "none", v |-> Zero, arg |-> One, base |-> One, n |-> 1]

\* math.log(arg) / (n * math.log(base)) for arg > 1, base > 1, n >= 1
LogQuotient(arg, base, n) ==
    IF \E k \in 1..MaxLog : RPowNat(base, k) = arg
    THEN Years(Rat(CHOOSE k \in 1..MaxLog : RPowNat(base, k) = arg, n))
    ELSE [status |-> "ok", kind |-> "log", v |-> Zero, arg |-> arg, base |-> base, n |-> n]

\* calculate_time testing the zero rate before the target already met
calculate_time_rate_first(target_amount, principal, rate, n) ==
    LET rate_decimal == RDiv(rate, Hundred)
        log_factor == RAdd(One, RDiv(rate_decimal, RInt(n)))
    IN  IF RLe(principal, Zero)
        THEN IF RLt(Zero, target_amount) THEN Infinity ELSE Years(Zero)
        ELSE IF rate_decimal = Zero THEN Infinity
        ELSE IF RLe(target_amount, principal) THEN Years(Zero)
        ELSE IF n = 0 THEN RaiseTime("ZeroDivisionError")
        ELSE IF RLe(log_factor, One) THEN Infinity
        ELSE LogQuotient(RDiv(target_amount, principal), log_factor, n)

\* calculate_time without the test for a growth factor of at most 1
calculate_time_no_decay_check(target_amount, principal, rate, n) ==
    LET rate_decimal == RDiv(rate, Hundred)
        log_factor == RAdd(One, RDiv(rate_decimal, RInt(n)))
    IN  IF RLe(principal, Zero)
        THEN IF RLt(Zero, target_amount) THEN Infinity ELSE Years(Zero)
        ELSE IF RLe(target_amount, principal) THEN Years(Zero)
        ELSE IF rate_decimal = Zero THEN Infinity
        ELSE IF n = 0 THEN RaiseTime("ZeroDivisionError")
        ELSE LogQuotient(RDiv(target_amount, principal), log_factor, n)

\* calculate_time answering infinity for every non-positive principal
calculate_time_nothing_never_grows(target_amount, principal, rate, n) ==
    LET rate_decimal == RDiv(rate, Hundred)
        log_factor == RAdd(One, RDiv(rate_decimal, RInt(n)))
    IN  IF RLe(principal, Zero) THEN Infinity
        ELSE IF RLe(target_amount, principal) THEN Years(Zero)
        ELSE IF rate_decimal = Zero THEN Infinity
        ELSE IF n = 0 THEN RaiseTime("ZeroDivisionError")
        ELSE IF RLe(log_factor, One) THEN Infinity
        ELSE LogQuotient(RDiv(target_amount, principal), log_factor, n)

calculate_time(target_amount, principal, rate, n) ==
    LET rate_decimal == RDiv(rate, Hundred)
        log_factor == RAdd(One, RDiv(rate_decimal, RInt(n)))
    IN  IF RLe(principal, Zero)
        THEN IF RLt(Zero, target_amount) THEN Infinity ELSE Years(Zero)
        ELSE IF RLe(target_amount, principal) THEN Years(Zero)
        ELSE IF rate_decimal = Zero THEN Infinity
        ELSE IF n = 0 THEN RaiseTime("ZeroDivisionError")
        ELSE IF RLe(log_factor, One) THEN Infinity
        ELSE LogQuotient(RDiv(target_amount, principal), log_factor, n)

\* int(x): truncation toward zero
PyInt(x) == IF Num(x) >= 0 THEN Num(x) \div Den(x) ELSE -((-Num(x)) \div Den(x))

Growth(g) == [status |-> "ok", growth |-> g]
RaiseGrowth(e) == [status |-> e, growth |-> <<>>]

\* the years of range(int(time))
YearRangeWithoutLast(time) == 0..(PyInt(time) - 1)

\* the years of range(int(time) + 1)
YearRange(time) == 0..PyInt(time)

\* the list built from the per-year results: one point (year, amount) per
\* year, or the exception of the first call that raises
GrowthOf(calcs) ==
    LET bad == {year \in DOMAIN calcs : calcs[year].status # "ok"}
    IN  IF bad # {}
        THEN RaiseGrowth(calcs[CHOOSE y \in bad : \A z \in bad : y <= z].status)
        ELSE Growth([i \in 1..Cardinality(DOMAIN calcs) |-> <<i - 1, calcs[i - 1].amount>>])

yearly_growth(principal, rate, time, n, tax_rate, fee_rate) ==
    GrowthOf([year \in YearRange(time) |->
                calculate(principal, rate, RInt(year), n, tax_rate, fee_rate)])

yearly_growth_regular_savings(payment, rate, time, n, tax_rate, fee_rate) ==
    GrowthOf([year \in YearRange(time) |->
                calculate_regular_savings(payment, rate, RInt(year), n, tax_rate, fee_rate)])

\* ------------------------------------------- numpy's global random generator
\* The generator is a deterministic state machine: np.random.seed puts it in
\* a state fixed by the seed, every draw advances the state and yields a
\* standard-normal deviate that depends on the state alone.
Seed == 42
RngModulus == 3
RngStates == 0..(RngModulus - 1)
\* np.random.seed(seed): whatever state the generator is in, it is put in the
\* state fixed by the seed
np_random_seed(state, seed) == seed % RngModulus
RngNext(state) == (state + 1) % RngModulus
\* the deviate drawn in a state, in standard deviations
Deviate(state) == IF state = 1 THEN 5 ELSE IF state = 2 THEN -6 ELSE 0

RECURSIVE RngAfter(_, _)
RngAfter(state, draws) ==
    IF draws = 0 THEN state
    ELSE IF draws = 1 THEN RngNext(state)
    ELSE CHOOSE after \in {RngAfter(middle, draws - (draws \div 2)) :
                               middle \in {RngAfter(state, draws \div 2)}} : TRUE

\* np.random.normal(loc, scale, size): ValueError for a negative scale,
\* otherwise the samples loc + scale * deviate of the next `size` states
np_random_normal(state, loc, scale, size) ==
    IF RLt(scale, Zero) \/ size < 0
    THEN [status |-> "ValueError", samples |-> <<>>, state |-> state]
    ELSE [status |-> "ok",
          samples |-> [i \in 1..size |->
                         RAdd(loc, RMul(scale, RInt(Deviate(RngAfter(state, i)))))],
          state |-> RngAfter(state, size)]

RMax(x, y) == IF RLt(x, y) THEN y ELSE x

RECURSIVE RSum(_)
RSum(xs0) ==
    CHOOSE sum \in
        {IF xs = <<>> THEN Zero
         ELSE IF Len(xs) = 1 THEN xs[1]
         ELSE RAdd(RSum(SubSeq(xs, 1, Len(xs) \div 2)),
                   RSum(SubSeq(xs, (Len(xs) \div 2) + 1, Len(xs)))) : xs \in {xs0}} : TRUE

SeqMin(xs) == CHOOSE x \in {xs[i] : i \in DOMAIN xs} : \A j \in DOMAIN xs : RLe(x, xs[j])
SeqMax(xs) == CHOOSE x \in {xs[i] : i \in DOMAIN xs} : \A j \in DOMAIN xs : RLe(xs[j], x)
Mean(xs) == RDiv(RSum(xs), RInt(Len(xs)))
\* np.std: the population standard deviation, the square root of the mean
\* of the squared deviations from the mean.  It is irrational in general and
\* is kept as that expression over the deviations.
PopulationStd(xs) ==
    CHOOSE s \in {[sqrt_mean_square_of |-> [i \in DOMAIN xs |-> RSub(xs[i], m)]] :
                     m \in {Mean(xs)}} : TRUE

Summary(mean, min, max, std) ==
    [status |-> "ok", mean |-> mean, min |-> min, max |-> max, std |-> std]
RaiseSummary(e) ==
    [status |-> e, mean |-> Zero, min |-> Zero, max |-> Zero, std |-> PopulationStd(<<Zero>>)]

\* the sampling without the seeding: the draws go on from the state the
\* generator is in
SampledRatesUnseeded(state, rate, simulations) ==
    LET drawn == np_random_normal(state, rate, RMul(rate, Rat(1, 5)), simulations)
    IN  [drawn EXCEPT !.samples = [i \in DOMAIN drawn.samples |-> RMax(Zero, drawn.samples[i])]]

\* the sampling without np.maximum
SampledRatesUnclamped(state, rate, simulations) ==
    np_random_normal(np_random_seed(state, Seed), rate, RMul(rate, Rat(1, 5)), simulations)

\* np.maximum(0, np.random.normal(rate, rate * 0.2, simulations)) after
\* np.random.seed(42), called with the generator in `state`
SampledRates(state, rate, simulations) ==
    LET drawn == np_random_normal(np_random_seed(state, Seed), rate, RMul(rate, Rat(1, 5)),
                                  simulations)
    IN  [drawn EXCEPT !.samples = [i \in DOMAIN drawn.samples |-> RMax(Zero, drawn.samples[i])]]

\* the summary of the amounts, or the exception of the first calculation that
\* raised; np.min raises ValueError for an empty list
Aggregate(calcs) ==
    LET bad == {i \in DOMAIN calcs : calcs[i].status # "ok"}
        Of(results) ==
            Summary(Mean(results), SeqMin(results), SeqMax(results), PopulationStd(results))
    IN  IF bad # {}
        THEN RaiseSummary(calcs[CHOOSE i \in bad : \A j \in bad : i <= j].status)
        ELSE IF calcs = <<>> THEN RaiseSummary("ValueError")
        ELSE CHOOSE s \in {Of(results) :
                             results \in {[i \in DOMAIN calcs |-> calcs[i].amount]}} : TRUE

\* the summary returned (or the exception raised) by a call made with the
\* global generator in `state`, and the state in which the call leaves it
monte_carlo_simulation(state, principal, rate, time, n, tax_rate, fee_rate, simulations) ==
    LET Run(rates) ==
            [rng |-> rates.state,
             summary |->
                IF rates.status # "ok" THEN RaiseSummary(rates.status)
                ELSE CHOOSE s \in {Aggregate(calcs) :
                        calcs \in {[i \in DOMAIN rates.samples |->
                                      calculate(principal, rates.samples[i], time, n,
                                                tax_rate, fee_rate)]}} : TRUE]
    IN  CHOOSE out \in {Run(rates) : rates \in {SampledRates(state, rate, simulations)}} : TRUE

\* ---------------------------------------------------------- process_batch
\* A value of the parsed JSON file: a number, a text, or no value under the
\* key; None is Python's None.
Absent == [json |-> "absent", num |-> Zero, str |-> ""]
None == [json |-> "null", num |-> Zero, str |-> ""]
Number(v) == [json |-> "number", num |-> v, str |-> ""]
String(s) == [json |-> "string", num |-> Zero, str |-> s]

\* calc.get(key, default)
calc_get(field, default) == IF field = Absent THEN default ELSE field

\* float(x): the number; ValueError for a text that is no number, TypeError
\* for None
py_float(x) ==
    IF x.json = "number" THEN Value(x.num)
    ELSE IF x.json = "string" THEN Raise("ValueError")
    ELSE Raise("TypeError")

\* int(x): the number truncated toward zero
py_int(x) ==
    IF x.json = "number" THEN Value(RInt(PyInt(x.num)))
    ELSE IF x.json = "string" THEN Raise("ValueError")
    ELSE Raise("TypeError")

StandardFrequencies == {"weekly", "monthly", "quarterly", "yearly"}

InferredFrequency(compounds) ==
    IF compounds = 1 THEN "yearly"
    ELSE IF compounds = 4 THEN "quarterly"
    ELSE IF compounds = 12 THEN "monthly"
    ELSE IF compounds = 52 THEN "weekly"
    ELSE "per_compound"

\* one entry of the result list; number tells a real amount from a complex one
BatchRow(principal, payment, rate, time, compounds, tax, fee, number, amount, interest, payment_frequency) ==
    [principal |-> principal, payment |-> payment, rate |-> rate, time |-> time,
     compounds_per_year |-> compounds, tax_rate |-> tax, fee_rate |-> fee,
     number |-> number, amount |-> amount, interest |-> interest,
     payment_frequency |-> payment_frequency]

NoRow == BatchRow(Zero, Zero, Zero, Zero, 1, Zero, Zero, "real", Zero, Zero, None)

\* the conversions of one request with an explicit zero rate taken as missing
request_fields_zero_is_missing(calc, default_tax_rate, default_fee_rate) ==
    [principal |-> py_float(calc_get(calc.principal, Number(Zero))),
     payment |-> py_float(calc_get(calc.payment, Number(Zero))),
     rate |-> py_float(calc_get(calc.rate, Number(Zero))),
     time |-> py_float(calc_get(calc.time, Number(Zero))),
     compounds |-> py_int(calc_get(calc.compounds_per_year, Number(One))),
     tax |-> py_float(IF calc.tax_rate \in {Absent, Number(Zero)}
                      THEN Number(default_tax_rate) ELSE calc.tax_rate),
     fee |-> py_float(IF calc.fee_rate \in {Absent, Number(Zero)}
                      THEN Number(default_fee_rate) ELSE calc.fee_rate)]

\* the conversions of one request, in the order the code makes them
request_fields(calc, default_tax_rate, default_fee_rate) ==
    [principal |-> py_float(calc_get(calc.principal, Number(Zero))),
     payment |-> py_float(calc_get(calc.payment, Number(Zero))),
     rate |-> py_float(calc_get(calc.rate, Number(Zero))),
     time |-> py_float(calc_get(calc.time, Number(Zero))),
     compounds |-> py_int(calc_get(calc.compounds_per_year, Number(One))),
     tax |-> py_float(calc_get(calc.tax_rate, Number(default_tax_rate))),
     fee |-> py_float(calc_get(calc.fee_rate, Number(default_fee_rate)))]

\* the body of the loop after the conversions: the exception of the first
\* conversion or of the calculation, or the entry appended to the results
evaluate_request(f, given_frequency, regular_savings) ==
    LET order == <<f.principal, f.payment, f.rate, f.time, f.compounds, f.tax, f.fee>>
        bad == {i \in DOMAIN order : order[i].status # "ok"}
        n == Num(f.compounds.v)
        payment_frequency ==
            IF RLt(Zero, f.payment.v)
               /\ ~(given_frequency.json = "string"
                    /\ given_frequency.str \in StandardFrequencies)
            THEN String(InferredFrequency(n))
            ELSE given_frequency
        Entry(outcome) ==
            IF outcome.status \notin {"ok", "complex"}
            THEN [status |-> outcome.status, row |-> NoRow]
            ELSE [status |-> "ok",
                  row |-> BatchRow(f.principal.v, f.payment.v, f.rate.v, f.time.v, n, f.tax.v,
                                   f.fee.v, IF outcome.status = "ok" THEN "real" ELSE "complex",
                                   outcome.amount, outcome.interest, payment_frequency)]
    IN  IF bad # {}
        THEN [status |-> order[CHOOSE i \in bad : \A j \in bad : i <= j].status, row |-> NoRow]
        ELSE CHOOSE entry \in
                 {Entry(outcome) : outcome \in
                     {IF regular_savings
                      THEN calculate_regular_savings(f.payment.v, f.rate.v, f.time.v, n,
                                                     f.tax.v, f.fee.v)
                      ELSE calculate(f.principal.v, f.rate.v, f.time.v, n,
                                     f.tax.v, f.fee.v)}} : TRUE

\* one request with the formula chosen by the principal
process_request_by_principal(calc, default_tax_rate, default_fee_rate) ==
    CHOOSE done \in
        {evaluate_request(f, calc_get(calc.payment_frequency, None),
                          ~RLt(Zero, f.principal.v)) :
            f \in {request_fields(calc, default_tax_rate, default_fee_rate)}} : TRUE

\* one pass of the loop over the requests
process_request(calc, default_tax_rate, default_fee_rate) ==
    CHOOSE done \in
        {evaluate_request(f, calc_get(calc.payment_frequency, None),
                          RLt(Zero, f.payment.v)) :
            f \in {request_fields(calc, default_tax_rate, default_fee_rate)}} : TRUE

BatchResults(results) == [status |-> "ok", message |-> "", results |-> results]
RaiseBatch(message) == [status |-> "ValueError", message |-> message, results |-> <<>>]

\* process_batch leaving out the requests that cannot be evaluated
process_batch_skipping_failures(source, default_tax_rate, default_fee_rate) ==
    IF source.kind = "missing" THEN BatchResults(<<>>)
    ELSE IF source.kind = "invalid" THEN BatchResults(<<>>)
    ELSE IF source.kind = "scalar" THEN BatchResults(<<>>)
    ELSE LET Kept(rows) ==
                 LET done == SelectSeq(rows, LAMBDA row : row.status = "ok")
                 IN  BatchResults([i \in DOMAIN done |-> done[i].row])
         IN  CHOOSE batch \in
                 {Kept(rows) : rows \in
                     {[i \in DOMAIN source.data |->
                         process_request(source.data[i], default_tax_rate,
                                         default_fee_rate)]}} : TRUE

\* the list of results, or the ValueError into which every failure is turned
process_batch(source, default_tax_rate, default_fee_rate) ==
    IF source.kind = "missing" THEN RaiseBatch("Batch file not found")
    ELSE IF source.kind = "invalid" THEN RaiseBatch("Invalid JSON format in file")
    ELSE IF source.kind = "scalar" THEN RaiseBatch("Error processing batch file")
    ELSE LET Finish(rows) ==
                 IF \E i \in DOMAIN rows : rows[i].status # "ok"
                 THEN RaiseBatch("Error processing batch file")
                 ELSE BatchResults([i \in DOMAIN rows |-> rows[i].row])
         IN  CHOOSE batch \in
                 {Finish(rows) : rows \in
                     {[i \in DOMAIN source.data |->
                         process_request(source.data[i], default_tax_rate,
                                         default_fee_rate)]}} : TRUE

\* ------------------------------------------------------- the state machine
\* One call of an engine operation, or one pass through the menu loop, per
\* step.  op and args record the call, result what it returned or raised;
\* np_random_state is the state of numpy's process-wide generator; history
\* and templates are the rows of the database's two tables, oldest first;
\* console is what the option has printed since the screen was cleared,
\* csv_file the file at the path given to the export, show_graph the menu's
\* switch for the growth graph.
VARIABLES op, args, result, np_random_state, history, templates, console, csv_file,
          show_graph

vars == <<op, args, result, np_random_state, history, templates, console, csv_file,
          show_graph>>

Principals == {RInt(-100), Zero, RInt(1000)}
Payments == {Zero, RInt(100)}
Targets == {RInt(-100), Zero, RInt(1000), RInt(2000), RInt(4000)}
Rates == {RInt(-300), RInt(-100), Zero, RInt(10), RInt(300)}
Times == {RInt(-1), Zero, Rat(1, 2), One, Rat(3, 2)}
Compounds == 1..MaxCompounds
TaxRates == {Zero, RInt(20)}
FeeRates == {Zero, One}
\* tax and fee rate together: none, or both
Charges == {<<Zero, Zero>>, <<RInt(20), One>>}
Simulations == 0..MaxSimulations
\* the simulation adds up amounts for several rates around the given one; it
\* is given the rates whose samples keep the sums' denominators small
SimulationRates == Rates \ {RInt(10)}

\* what the file path leads to: no file, a file that is not JSON, a JSON
\* value that is no list, or a list of request objects
Missing == [kind |-> "missing", data |-> <<>>]
Invalid == [kind |-> "invalid", data |-> <<>>]
Scalar == [kind |-> "scalar", data |-> <<>>]
List(data) == [kind |-> "list", data |-> data]

Request(principal, payment, rate, time, compounds, tax, fee, frequency) ==
    [principal |-> principal, payment |-> payment, rate |-> rate, time |-> time,
     compounds_per_year |-> compounds, tax_rate |-> tax, fee_rate |-> fee,
     payment_frequency |-> frequency]

\* requests that differ in what selects the formula and in the compounding
ModeRequests ==
    {Request(p, pay, r, Number(One), n, Absent, Absent, Absent) :
        p \in {Absent, Number(RInt(1000))},
        pay \in {Absent, Number(RInt(-100)), Number(Zero), Number(RInt(100))},
        r \in {Absent, Number(Hundred)},
        n \in {Absent} \cup {Number(RInt(k)) : k \in {-1, 0} \cup Compounds}}

\* requests that differ in the payment frequency they give
FrequencyRequests ==
    {Request(Absent, pay, Absent, Number(One), n, Absent, Absent, frequency) :
        pay \in {Number(Zero), Number(RInt(100))},
        n \in {Absent} \cup {Number(RInt(k)) : k \in Compounds \cup {4, 12, 52}},
        frequency \in {Absent, String("monthly"), String("daily")}}

\* requests that differ in the tax and fee rates they give
ChargeRequests ==
    {Request(Number(RInt(1000)), pay, Number(Hundred), Number(One), Number(One),
             tax, fee, Absent) :
        pay \in {Absent, Number(RInt(100))},
        tax \in {Absent, Number(Zero), Number(RInt(10))},
        fee \in {Absent, Number(Zero), Number(RInt(2))}}

\* a lump sum, regular savings next to a principal, a compounding of 0, a
\* rate that is no number, and regular savings with a complex result
LumpSum ==
    Request(Number(RInt(1000)), Absent, Number(Hundred), Number(One), Number(One),
            Absent, Absent, Absent)
SavingsWithPrincipal ==
    Request(Number(RInt(1000)), Number(RInt(100)), Number(Hundred), Number(One),
            Number(RInt(2)), Absent, Absent, Absent)
NoCompounding ==
    Request(Number(RInt(1000)), Absent, Number(Hundred), Number(One), Number(Zero),
            Absent, Absent, Absent)
RateNotANumber ==
    Request(Number(RInt(1000)), Absent, String("ten"), Number(One), Number(One),
            Absent, Absent, Absent)
ComplexSavings ==
    Request(Absent, Number(RInt(100)), Number(RInt(-300)), Number(Rat(1, 2)), Number(One),
            Absent, Absent, Absent)
SampleRequests == {LumpSum, SavingsWithPrincipal, NoCompounding, RateNotANumber, ComplexSavings}

\* the lists of up to MaxBatch of the sample requests
SampleLists == UNION {[1..k -> SampleRequests] : k \in 0..MaxBatch}

BatchSources ==
    {Missing, Invalid, Scalar}
    \cup {List(data) : data \in SampleLists}
    \cup {List(<<calc>>) : calc \in ModeRequests \cup FrequencyRequests \cup ChargeRequests}

NoArgs ==
    [principal |-> Zero, payment |-> Zero, target_amount |-> Zero, rate |-> Zero,
     time |-> Zero, compounds_per_year |-> 1, tax_rate |-> Zero, fee_rate |-> Zero,
     simulations |-> 0, source |-> Missing, payment_frequency |-> None,
     target_date |-> None, template_id |-> 0]

\* a line of the console: a text, or a number of years shown with two decimals
Line(text) == [text |-> text, hundredths |-> 0]

\* no file at the path
NoFile == [exists |-> FALSE, header |-> <<>>, rows |-> <<>>]

BaseOf(rate, n) == RAdd(One, RDiv(RDiv(rate, Hundred), RInt(n)))
CanModel(rate, time, n) == Representable(BaseOf(rate, n), RMul(RInt(n), time))

Init ==
    /\ op = "none"
    /\ args = NoArgs
    /\ result = Value(Zero)
    /\ np_random_state \in RngStates
    /\ history = <<>>
    /\ templates = <<>>
    /\ console = <<>>
    /\ csv_file = NoFile
    /\ show_graph = TRUE

Calculate ==
    \E p \in Principals, r \in Rates, t \in Times, n \in Compounds,
       tax \in TaxRates, fee \in FeeRates :
        /\ op = "none"
        /\ CanModel(r, t, n)
        /\ op' = "calculate"
        /\ args' = [NoArgs EXCEPT !.principal = p, !.rate = r, !.time = t,
                       !.compounds_per_year = n, !.tax_rate = tax, !.fee_rate = fee]
        /\ result' = calculate(p, r, t, n, tax, fee)
        /\ UNCHANGED <<np_random_state, history, templates, console, csv_file, show_graph>>

CalculateRegularSavings ==
    \E pay \in Payments, r \in Rates, t \in Times, n \in Compounds,
       tax \in TaxRates, fee \in FeeRates :
        /\ op = "none"
        /\ CanModel(r, t, n)
        /\ op' = "calculate_regular_savings"
        /\ args' = [NoArgs EXCEPT !.payment = pay, !.rate = r, !.time = t,
                       !.compounds_per_year = n, !.tax_rate = tax, !.fee_rate = fee]
        /\ result' = calculate_regular_savings(pay, r, t, n, tax, fee)
        /\ UNCHANGED <<np_random_state, history, templates, console, csv_file, show_graph>>

CalculatePrincipal ==
    \E target \in Targets, r \in Rates, t \in Times, n \in Compounds :
        /\ op = "none"
        /\ CanModel(r, t, n)
        /\ op' = "calculate_principal"
        /\ args' = [NoArgs EXCEPT !.target_amount = target, !.rate = r, !.time = t,
                       !.compounds_per_year = n]
        /\ result' = calculate_principal(target, r, t, n)
        /\ UNCHANGED <<np_random_state, history, templates, console, csv_file, show_graph>>

CalculateTime ==
    \E target \in Targets, p \in Principals, r \in Rates, n \in Compounds :
        /\ op = "none"
        /\ op' = "calculate_time"
        /\ args' = [NoArgs EXCEPT !.target_amount = target, !.principal = p, !.rate = r,
                       !.compounds_per_year = n]
        /\ result' = calculate_time(target, p, r, n)
        /\ UNCHANGED <<np_random_state, history, templates, console, csv_file, show_graph>>

YearlyGrowth ==
    \E p \in Principals, r \in Rates, t \in Times, n \in Compounds,
       charge \in Charges :
        /\ op = "none"
        /\ op' = "yearly_growth"
        /\ args' = [NoArgs EXCEPT !.principal = p, !.rate = r, !.time = t,
                       !.compounds_per_year = n, !.tax_rate = charge[1], !.fee_rate = charge[2]]
        /\ result' = yearly_growth(p, r, t, n, charge[1], charge[2])
        /\ UNCHANGED <<np_random_state, history, templates, console, csv_file, show_graph>>

YearlyGrowthRegularSavings ==
    \E pay \in Payments, r \in Rates, t \in Times, n \in Compounds,
       charge \in Charges :
        /\ op = "none"
        /\ op' = "yearly_growth_regular_savings"
        /\ args' = [NoArgs EXCEPT !.payment = pay, !.rate = r, !.time = t,
                       !.compounds_per_year = n, !.tax_rate = charge[1], !.fee_rate = charge[2]]
        /\ result' = yearly_growth_regular_savings(pay, r, t, n, charge[1], charge[2])
        /\ UNCHANGED <<np_random_state, history, templates, console, csv_file, show_graph>>

MonteCarloSimulation ==
    \E p \in Principals, r \in SimulationRates, t \in Times, n \in Compounds,
       charge \in Charges, sims \in Simulations :
        /\ op = "none"
        /\ \A sampled \in {SampledRates(np_random_state, r, sims).samples} :
               \A i \in DOMAIN sampled : CanModel(sampled[i], t, n)
        /\ op' = "monte_carlo_simulation"
        /\ args' = [NoArgs EXCEPT !.principal = p, !.rate = r, !.time = t,
                       !.compounds_per_year = n, !.tax_rate = charge[1], !.fee_rate = charge[2],
                       !.simulations = sims]
        /\ \E mc \in {monte_carlo_simulation(np_random_state, p, r, t, n, charge[1],
                                                 charge[2], sims)} :
               /\ result' = mc.summary
               /\ np_random_state' = mc.rng
        /\ UNCHANGED <<history, templates, console, csv_file, show_graph>>

ProcessBatch ==
    \E source \in BatchSources, charge \in Charges :
        /\ op = "none"
        /\ op' = "process_batch"
        /\ args' = [NoArgs EXCEPT !.source = source, !.tax_rate = charge[1],
                       !.fee_rate = charge[2]]
        /\ result' = process_batch(source, charge[1], charge[2])
        /\ UNCHANGED <<np_random_state, history, templates, console, csv_file, show_graph>>

\* the caller takes the result; the engine is ready for the next call
\* the call returns to its caller; in the menu, Enter is pressed and the
\* screen cleared, unless the option was the exit
Return ==
    /\ op \notin {"none", "menu_12"}
    /\ op' = "none"
    /\ args' = NoArgs
    /\ result' = Value(Zero)
    /\ console' = <<>>
    /\ UNCHANGED <<np_random_state, history, templates, csv_file, show_graph>>

Next ==
    \/ Calculate
    \/ CalculateRegularSavings
    \/ CalculatePrincipal
    \/ CalculateTime
    \/ YearlyGrowth
    \/ YearlyGrowthRegularSavings
    \/ MonteCarloSimulation
    \/ ProcessBatch
    \/ Return

Spec == Init /\ [][Next]_vars

\* ------------------------------------------------------------ the database
\* A row of the calculations table; its id and its timestamp are its place in
\* the table.
Calculation(principal, payment, payment_frequency, rate, time, n, tax_rate, fee_rate, amount, interest, target_date) ==
    [principal |-> principal, payment |-> payment, payment_frequency |-> payment_frequency,
     rate |-> rate, time |-> time, compounds_per_year |-> n, tax_rate |-> tax_rate,
     fee_rate |-> fee_rate, amount |-> amount, interest |-> interest,
     target_date |-> target_date]

\* a row of the templates table; its id is its place in the table
Template(name, principal, payment, payment_frequency, rate, time, n, tax_rate, fee_rate) ==
    [name |-> name, principal |-> principal, payment |-> payment,
     payment_frequency |-> payment_frequency, rate |-> rate, time |-> time,
     compounds_per_year |-> n, tax_rate |-> tax_rate, fee_rate |-> fee_rate]

\* save_calculation keeping the new row alone
save_calculation_replacing(rows, row) == <<row>>

save_calculation(rows, row) == Append(rows, row)
save_template(rows, row) == Append(rows, row)

\* ---------------------------------------------------------------- the menu
\* One pass through the loop of main_menu per step: the option chosen, the
\* values entered (get_valid_input admits only values within its limits),
\* the calls the option makes and what it prints.  Tables and panels are
\* printed lines named by their titles.
MenuPrincipals == {RInt(1000)}
MenuPayments == {RInt(100)}
MenuRates == {Hundred}
MenuTimes == {One}
MenuCompounds == {1}
MenuFrequencies == {"yearly"}
compounds_map(payment_frequency) ==
    CASE payment_frequency = "weekly" -> 52
      [] payment_frequency = "monthly" -> 12
      [] payment_frequency = "quarterly" -> 4
      [] payment_frequency = "yearly" -> 1

\* the rates entered with a frequency: a rate other than 0 goes with yearly
\* payments
MenuSavingsRates(payment_frequency) ==
    IF compounds_map(payment_frequency) <= MaxCompounds THEN MenuRates ELSE {Zero}

\* the tax and fee rates entered at options 1, 2, 3, 4 and 6
MenuCharges == {<<RInt(20), One>>}

\* what is entered for a template at option 6
TemplateCompounds == {1}
TemplateFrequencies == {"yearly"}
TemplateRates == {Hundred}

\* the files given to option 10: none, one that is not JSON, an empty list,
\* regular savings next to a principal, alone and after a lump sum, a list
\* whose second request cannot be evaluated, and a list whose second result
\* is a complex number; the default rates entered with them
MenuSources ==
    {Missing, Invalid, List(<<>>), List(<<SavingsWithPrincipal>>),
     List(<<LumpSum, SavingsWithPrincipal>>), List(<<LumpSum, NoCompounding>>),
     List(<<LumpSum, ComplexSavings>>)}
MenuBatchCharges == {<<Zero, Zero>>}

\* what is entered at option 5: targets at, above and a half above the
\* principal, rates without and with growth
GoalTargets == {RInt(1000), RInt(1500), RInt(2000)}
GoalRates == {Zero, Hundred}

\* the least numbers option 3 and option 4 admit
MinScenarios == 2
MinSimulations == 100

\* f"{v:.2f}" for v >= 0: the number of hundredths nearest to v, the even one
\* of two that are equally near
Hundredths(v) ==
    CHOOSE h \in
        {IF 2 * (Num(x) % Den(x)) < Den(x) THEN Num(x) \div Den(x)
         ELSE IF 2 * (Num(x) % Den(x)) > Den(x) THEN (Num(x) \div Den(x)) + 1
         ELSE IF (Num(x) \div Den(x)) % 2 = 0 THEN Num(x) \div Den(x)
         ELSE (Num(x) \div Den(x)) + 1 : x \in {RMul(v, Hundred)}} : TRUE

YearsLine(v) == [text |-> "years", hundredths |-> Hundredths(v)]

\* time_display without the test for an infinite time
time_display_years_only(time, target_amount, principal) ==
    IF time = Years(Zero) /\ RLt(principal, target_amount)
    THEN Line("Target amount cannot be reached with given principal and zero rate.")
    ELSE YearsLine(time.v)

\* time_display of option 5 for the time calculate_time returned
time_display(time, target_amount, principal) ==
    IF time = Infinity
    THEN Line("Infinite (target not reachable with given rate or principal)")
    ELSE IF time = Years(Zero) /\ RLt(principal, target_amount)
    THEN Line("Target amount cannot be reached with given principal and zero rate.")
    ELSE YearsLine(time.v)

\* get_history: the rows of the calculations table with their ids, the
\* newest first
get_history(rows) ==
    [i \in 1..Len(rows) |-> [id |-> Len(rows) + 1 - i, row |-> rows[Len(rows) + 1 - i]]]

\* the columns of the calculations table
Columns ==
    <<"id", "principal", "payment", "payment_frequency", "rate", "time",
      "compounds_per_year", "tax_rate", "fee_rate", "amount", "interest", "target_date",
      "timestamp">>

\* a text or None as a cell of the file: None is written as the empty text
Cell(v) == IF v = None THEN "" ELSE v.str

\* the file export_to_csv writes for a history that is not empty: the header
\* and one line per row; the timestamps are left out of the lines
CsvOf(rows) ==
    [exists |-> TRUE,
     header |-> Columns,
     rows |-> [i \in 1..Len(rows) |->
                 [id |-> get_history(rows)[i].id,
                  principal |-> get_history(rows)[i].row.principal,
                  payment |-> get_history(rows)[i].row.payment,
                  payment_frequency |-> Cell(get_history(rows)[i].row.payment_frequency),
                  rate |-> get_history(rows)[i].row.rate,
                  time |-> get_history(rows)[i].row.time,
                  compounds_per_year |-> get_history(rows)[i].row.compounds_per_year,
                  tax_rate |-> get_history(rows)[i].row.tax_rate,
                  fee_rate |-> get_history(rows)[i].row.fee_rate,
                  amount |-> get_history(rows)[i].row.amount,
                  interest |-> get_history(rows)[i].row.interest,
                  target_date |-> Cell(get_history(rows)[i].row.target_date)]]]

\* the program starts; the menu draws no random numbers before option 4
MenuInit == Init /\ np_random_state = np_random_seed(np_random_state, Seed)

\* display_results and display_yearly_growth: the summary panel and the table
\* of the yearly growth, with its graph column if the graph is switched on
ResultLines(graph) ==
    <<Line("Compound Interest Summary"),
      Line(IF graph THEN "Yearly Growth, Growth Graph" ELSE "Yearly Growth")>>

\* option 1: Calculate Compound Interest (Lump Sum)
MenuLumpSum ==
    \E p \in MenuPrincipals, r \in MenuRates, t \in MenuTimes, n \in MenuCompounds,
       charge \in MenuCharges :
        /\ op = "none"
        /\ Len(history) < MaxHistory
        /\ op' = "menu_1"
        /\ args' = [NoArgs EXCEPT !.principal = p, !.rate = r, !.time = t,
                       !.compounds_per_year = n, !.tax_rate = charge[1], !.fee_rate = charge[2]]
        /\ \E calc \in {calculate(p, r, t, n, charge[1], charge[2])} :
               /\ result' = calc
               /\ history' = save_calculation(history,
                                 Calculation(p, Zero, None, r, t, n, charge[1], charge[2],
                                             calc.amount, calc.interest, None))
        /\ console' = ResultLines(show_graph)
        /\ UNCHANGED <<np_random_state, templates, csv_file, show_graph>>

\* option 2: Calculate Regular Savings
MenuRegularSavings ==
    \E pay \in MenuPayments, f \in MenuFrequencies, t \in MenuTimes, charge \in MenuCharges :
      \E r \in MenuSavingsRates(f), n \in {compounds_map(f)} :
        /\ op = "none"
        /\ Len(history) < MaxHistory
        /\ op' = "menu_2"
        /\ args' = [NoArgs EXCEPT !.payment = pay, !.payment_frequency = String(f),
                       !.rate = r, !.time = t, !.compounds_per_year = n,
                       !.tax_rate = charge[1], !.fee_rate = charge[2]]
        /\ \E calc \in {calculate_regular_savings(pay, r, t, n, charge[1], charge[2])} :
               /\ result' = calc
               /\ history' = save_calculation(history,
                                 Calculation(Zero, pay, String(f), r, t, n, charge[1],
                                             charge[2], calc.amount, calc.interest, None))
        /\ console' = ResultLines(show_graph)
        /\ UNCHANGED <<np_random_state, templates, csv_file, show_graph>>

\* option 3: Compare Scenarios, of a lump sum and of regular savings
MenuCompareScenarios ==
    \E p \in MenuPrincipals, pay \in MenuPayments, r \in MenuRates, t \in MenuTimes,
       n \in MenuCompounds, charge \in MenuCharges :
        /\ op = "none"
        /\ op' = "menu_3"
        /\ args' = [NoArgs EXCEPT !.principal = p, !.payment = pay, !.rate = r, !.time = t,
                       !.compounds_per_year = n, !.tax_rate = charge[1], !.fee_rate = charge[2]]
        /\ result' = [status |-> "ok",
                      scenarios |->
                          [i \in 1..MinScenarios |->
                              IF i = 1 THEN calculate(p, r, t, n, charge[1], charge[2])
                              ELSE calculate_regular_savings(pay, r, t, n, charge[1],
                                                             charge[2])]]
        /\ console' = <<Line("Scenario Comparison")>>
        /\ UNCHANGED <<np_random_state, history, templates, csv_file, show_graph>>

\* what monte_carlo_simulation returns for what is entered at option 4, and
\* the state it leaves the generator in, by the state it finds it in
MenuSimulation ==
    {[state |-> state, entered |-> entered,
      mc |-> monte_carlo_simulation(state, entered[1], entered[2], entered[3], entered[4],
                                    entered[5][1], entered[5][2], MinSimulations)] :
        state \in RngStates,
        entered \in MenuPrincipals \X MenuRates \X MenuTimes \X MenuCompounds \X MenuCharges}

\* option 4: Monte Carlo Simulation
MenuMonteCarlo ==
    \E p \in MenuPrincipals, r \in MenuRates, t \in MenuTimes, n \in MenuCompounds,
       charge \in MenuCharges :
        /\ op = "none"
        /\ op' = "menu_4"
        /\ args' = [NoArgs EXCEPT !.principal = p, !.rate = r, !.time = t,
                       !.compounds_per_year = n, !.tax_rate = charge[1], !.fee_rate = charge[2],
                       !.simulations = MinSimulations]
        /\ \E call \in MenuSimulation :
               /\ call.state = np_random_state
               /\ call.entered = <<p, r, t, n, charge>>
               /\ result' = call.mc.summary
               /\ np_random_state' = call.mc.rng
        /\ console' = <<Line("Simulation Summary")>>
        /\ UNCHANGED <<history, templates, csv_file, show_graph>>

\* option 5, goal type 1: Calculate Principal
MenuGoalPrincipal ==
    \E target \in GoalTargets, r \in MenuRates, n \in MenuCompounds, t \in MenuTimes :
        /\ op = "none"
        /\ op' = "menu_5_principal"
        /\ args' = [NoArgs EXCEPT !.target_amount = target, !.rate = r, !.time = t,
                       !.compounds_per_year = n]
        /\ result' = calculate_principal(target, r, t, n)
        /\ console' = <<Line("Goal Result - Required Principal")>>
        /\ UNCHANGED <<np_random_state, history, templates, csv_file, show_graph>>

\* option 5, goal type 2: Calculate Time; the inputs are those for which the
\* time is a rational number or infinite
MenuGoalTime ==
    \E target \in GoalTargets, r \in GoalRates, n \in Compounds, p \in MenuPrincipals :
      \E time \in {calculate_time(target, p, r, n)} :
        /\ op = "none"
        /\ time.kind # "log"
        /\ op' = "menu_5_time"
        /\ args' = [NoArgs EXCEPT !.target_amount = target, !.principal = p, !.rate = r,
                       !.compounds_per_year = n]
        /\ result' = time
        /\ console' = <<Line("Goal Result - Required Time"), time_display(time, target, p)>>
        /\ UNCHANGED <<np_random_state, history, templates, csv_file, show_graph>>

\* option 6: Save Template, of a lump sum or of regular savings
MenuSaveTemplate ==
    \E lump_sum \in BOOLEAN, p \in MenuPrincipals, n \in TemplateCompounds,
       pay \in MenuPayments, f \in TemplateFrequencies, r \in TemplateRates,
       t \in MenuTimes, charge \in MenuCharges :
        /\ op = "none"
        /\ Len(templates) < MaxTemplates
        /\ lump_sum \/ r \in MenuSavingsRates(f)
        /\ op' = "menu_6"
        /\ \E row \in {IF lump_sum
                        THEN Template("plan", p, Zero, None, r, t, n, charge[1], charge[2])
                        ELSE Template("plan", Zero, pay, String(f), r, t, compounds_map(f),
                                      charge[1], charge[2])} :
               /\ args' = [NoArgs EXCEPT !.principal = row.principal,
                              !.payment = row.payment,
                              !.payment_frequency = row.payment_frequency, !.rate = r,
                              !.time = t, !.compounds_per_year = row.compounds_per_year,
                              !.tax_rate = charge[1], !.fee_rate = charge[2]]
               /\ templates' = save_template(templates, row)
        /\ result' = Value(Zero)
        /\ console' = <<Line("Successfully saved template")>>
        /\ UNCHANGED <<np_random_state, history, csv_file, show_graph>>

\* option 7: Load Template: without templates nothing can be loaded;
\* otherwise the template of the id entered, if there is one, is calculated
\* by the formula its payment selects, and the result saved
MenuLoadTemplate ==
    \E template_id \in 1..(MaxTemplates + 1) :
        /\ op = "none"
        /\ template_id \in DOMAIN templates => Len(history) < MaxHistory
        /\ templates = <<>> => template_id = 1
        /\ op' = "menu_7"
        /\ UNCHANGED <<np_random_state, templates, csv_file, show_graph>>
        /\ IF templates = <<>>
           THEN /\ args' = NoArgs
                /\ result' = Value(Zero)
                /\ console' = <<Line("No templates found to load.")>>
                /\ UNCHANGED history
           ELSE IF template_id \in DOMAIN templates
           THEN \E t \in {templates[template_id]} :
                  \E calc \in {IF RLt(Zero, t.payment)
                                THEN calculate_regular_savings(t.payment, t.rate, t.time,
                                         t.compounds_per_year, t.tax_rate, t.fee_rate)
                                ELSE calculate(t.principal, t.rate, t.time,
                                         t.compounds_per_year, t.tax_rate, t.fee_rate)} :
                    /\ args' = [NoArgs EXCEPT !.template_id = template_id,
                                   !.principal = t.principal, !.payment = t.payment,
                                   !.payment_frequency = t.payment_frequency,
                                   !.rate = t.rate, !.time = t.time,
                                   !.compounds_per_year = t.compounds_per_year,
                                   !.tax_rate = t.tax_rate, !.fee_rate = t.fee_rate]
                    /\ result' = calc
                    /\ history' = save_calculation(history,
                                      IF RLt(Zero, t.payment)
                                      THEN Calculation(Zero, t.payment, t.payment_frequency,
                                               t.rate, t.time, t.compounds_per_year,
                                               t.tax_rate, t.fee_rate, calc.amount,
                                               calc.interest, None)
                                      ELSE Calculation(t.principal, Zero, None, t.rate,
                                               t.time, t.compounds_per_year, t.tax_rate,
                                               t.fee_rate, calc.amount, calc.interest, None))
                    /\ console' = <<Line("Saved Templates"), Line("Loading template")>>
                                   \o ResultLines(show_graph)
           ELSE /\ args' = [NoArgs EXCEPT !.template_id = template_id]
                /\ result' = Raise("Invalid template ID")
                /\ console' = <<Line("Saved Templates"), Line("Invalid template ID.")>>
                /\ UNCHANGED history

\* option 8: View History
MenuViewHistory ==
    /\ op = "none"
    /\ op' = "menu_8"
    /\ args' = NoArgs
    /\ result' = Value(Zero)
    /\ console' = IF get_history(history) = <<>>
                  THEN <<Line("No calculations found in history.")>>
                  ELSE <<Line("Calculation History")>>
    /\ UNCHANGED <<np_random_state, history, templates, csv_file, show_graph>>

\* option 9: Export History to CSV.  export_to_csv returns without writing
\* when there is no history, writes the file, or raises IOError when the
\* file cannot be opened for writing; the option reports success whenever
\* export_to_csv has returned.
MenuExportHistory ==
    \E writable \in BOOLEAN :
        /\ op = "none"
        /\ op' = "menu_9"
        /\ args' = NoArgs
        /\ UNCHANGED <<np_random_state, history, templates, show_graph>>
        /\ IF get_history(history) = <<>>
           THEN /\ result' = Value(Zero)
                /\ console' = <<Line("No history to export."), Line("History exported to")>>
                /\ UNCHANGED csv_file
           ELSE IF writable
           THEN /\ result' = Value(Zero)
                /\ csv_file' = CsvOf(history)
                /\ console' = <<Line("History exported to")>>
           ELSE /\ result' = Raise("IOError")
                /\ console' = <<Line("Error exporting history")>>
                /\ UNCHANGED csv_file

\* the rows option 10 saves for the results: one per result, in order, up
\* to the first whose amount sqlite3 cannot bind (a complex number), where
\* the loop ends in the handler of unexpected errors
SavedOf(results) ==
    LET unbound == {i \in DOMAIN results : results[i].number = "complex"}
        last == IF unbound = {} THEN Len(results)
                ELSE (CHOOSE i \in unbound : \A j \in unbound : i <= j) - 1
    IN  [i \in 1..last |->
            Calculation(results[i].principal, results[i].payment,
                        results[i].payment_frequency, results[i].rate, results[i].time,
                        results[i].compounds_per_year, results[i].tax_rate,
                        results[i].fee_rate, results[i].amount, results[i].interest, None)]

\* what option 10 prints for the batch process_batch returned or raised
BatchLines(batch) ==
    IF batch.status # "ok" THEN <<Line("Error processing batch file")>>
    ELSE <<Line("Processing Batch Results from")>>
         \o (IF batch.results = <<>>
             THEN <<Line("No calculations processed from the batch file.")>> ELSE <<>>)
         \o [i \in 1..Len(SavedOf(batch.results)) |-> Line("Compound Interest Summary")]
         \o (IF Len(SavedOf(batch.results)) = Len(batch.results)
             THEN <<Line("Batch processing complete.")>>
             ELSE <<Line("An unexpected error occurred during batch processing")>>)

\* option 10: Process Batch from JSON
MenuProcessBatch ==
    \E source \in MenuSources, charge \in MenuBatchCharges :
        /\ op = "none"
        /\ Len(history) < MaxHistory
        /\ op' = "menu_10"
        /\ args' = [NoArgs EXCEPT !.source = source, !.tax_rate = charge[1],
                       !.fee_rate = charge[2]]
        /\ \E batch \in {process_batch(source, charge[1], charge[2])} :
               /\ result' = batch
               /\ history' = IF batch.status = "ok" THEN history \o SavedOf(batch.results)
                             ELSE history
               /\ console' = BatchLines(batch)
        /\ UNCHANGED <<np_random_state, templates, csv_file, show_graph>>

\* option 11: Toggle Growth Graph
MenuToggleGraph ==
    /\ op = "none"
    /\ op' = "menu_11"
    /\ args' = NoArgs
    /\ result' = Value(Zero)
    /\ show_graph' = ~show_graph
    /\ console' = <<Line(IF show_graph' THEN "Growth graph turned on."
                         ELSE "Growth graph turned off.")>>
    /\ UNCHANGED <<np_random_state, history, templates, csv_file>>

\* option 12: Exit; the loop ends
MenuExit ==
    /\ op = "none"
    /\ op' = "menu_12"
    /\ args' = NoArgs
    /\ result' = Value(Zero)
    /\ console' = <<Line("Thank you for using Compound Interest Calculator by HanSoBored!")>>
    /\ UNCHANGED <<np_random_state, history, templates, csv_file, show_graph>>

MenuNext ==
    \/ MenuLumpSum
    \/ MenuRegularSavings
    \/ MenuCompareScenarios
    \/ MenuMonteCarlo
    \/ MenuGoalPrincipal
    \/ MenuGoalTime
    \/ MenuSaveTemplate
    \/ MenuLoadTemplate
    \/ MenuViewHistory
    \/ MenuExportHistory
    \/ MenuProcessBatch
    \/ MenuToggleGraph
    \/ MenuExit
    \/ Return

MenuSpec == MenuInit /\ [][MenuNext]_vars

\* ------------------------------------------------------------- properties
\* the real power base^expo exists
PowerDefined(base, expo) ==
    /\ ~(base = Zero /\ RLt(expo, Zero))
    /\ ~(RLt(base, Zero) /\ ~IsWhole(expo))

Periods == RMul(RInt(args.compounds_per_year), args.time)
Factor == BaseOf(args.rate, args.compounds_per_year)
Percent(x) == RDiv(x, Hundred)

\* principal * (1 + (rate/100)/n)^(n*time)
GrossAmount == RMul(args.principal, RPow(Factor, Periods))

\* the annuity's future value before tax and fee
GrossFutureValue ==
    IF args.rate = Zero
    THEN RMul(RMul(args.payment, RInt(args.compounds_per_year)), args.time)
    ELSE RDiv(RMul(args.payment, RSub(RPow(Factor, Periods), One)),
              RDiv(Percent(args.rate), RInt(args.compounds_per_year)))

TotalContributed == RMul(RMul(args.payment, RInt(args.compounds_per_year)), args.time)

\* C1: whenever the power (1 + (rate/100)/n)^(n*time) exists, calculate
\* returns (amount - tax - fee, interest - tax - fee) with amount = principal
\* times that power, interest = amount - principal, tax = interest *
\* taxRate/100 and fee = amount * feeRate/100; the returned interest is the
\* returned amount minus the principal.
C1_CompoundFormula ==
    (op = "calculate" /\ PowerDefined(Factor, Periods)) =>
        LET amount == GrossAmount
            interest == RSub(amount, args.principal)
            tax == RMul(interest, Percent(args.tax_rate))
            fee == RMul(amount, Percent(args.fee_rate))
        IN  /\ result = Pair(RSub(RSub(amount, tax), fee), RSub(RSub(interest, tax), fee))
            /\ result.interest = RSub(result.amount, args.principal)

\* compound(1000, 10, 1, 1, 20, 1) = (1069, 69)
C1_Witness ==
    /\ op = "calculate"
    /\ args.principal = RInt(1000) /\ args.rate = RInt(10) /\ args.time = One
    /\ args.compounds_per_year = 1 /\ args.tax_rate = RInt(20) /\ args.fee_rate = One
    /\ result = Pair(RInt(1069), RInt(69))

\* the balance after `periods` periods, each of which first multiplies the
\* balance by `factor` and then adds `payment`
RECURSIVE OrdinaryAnnuity(_, _, _)
OrdinaryAnnuity(payment, factor, periods) ==
    IF periods = 0 THEN Zero
    ELSE RAdd(RMul(OrdinaryAnnuity(payment, factor, periods - 1), factor), payment)

\* C2: for rate # 0, no tax, no fee and a whole number N = n*time >= 0 of
\* periods, calculate_regular_savings returns as amount the balance reached
\* by N periods of "multiply by 1 + (rate/100)/n, then add the payment",
\* starting from 0.
C2_OrdinaryAnnuity ==
    (/\ op = "calculate_regular_savings"
     /\ args.rate # Zero /\ args.tax_rate = Zero /\ args.fee_rate = Zero
     /\ IsWhole(Periods) /\ RLe(Zero, Periods)) =>
        /\ result.status = "ok"
        /\ result.amount = OrdinaryAnnuity(args.payment, Factor, Num(Periods))

\* three payments of 100 at 150% per period: 100 * 6.25 + 100 * 2.5 + 100
C2_Witness ==
    /\ op = "calculate_regular_savings"
    /\ args.payment = RInt(100) /\ args.rate = RInt(300) /\ args.time = Rat(3, 2)
    /\ args.compounds_per_year = 2 /\ args.tax_rate = Zero /\ args.fee_rate = Zero
    /\ result.amount = RInt(975)

\* C3: in the zero-rate and in the non-zero-rate branch alike,
\* calculate_regular_savings returns (futureValue - tax - fee, interest - tax
\* - fee) with totalContributed = payment * n * time, interest = futureValue -
\* totalContributed, tax = interest * taxRate/100 and fee = futureValue *
\* feeRate/100; the returned interest is the returned amount minus
\* totalContributed.
C3_AnnuityTaxAndFee ==
    (/\ op = "calculate_regular_savings"
     /\ (args.rate = Zero \/ PowerDefined(Factor, Periods))) =>
        LET fv == GrossFutureValue
            interest == RSub(fv, TotalContributed)
            tax == RMul(interest, Percent(args.tax_rate))
            fee == RMul(fv, Percent(args.fee_rate))
        IN  /\ result = Pair(RSub(RSub(fv, tax), fee), RSub(RSub(interest, tax), fee))
            /\ result.interest = RSub(result.amount, TotalContributed)

\* a taxed and charged annuity with interest: 3 payments of 100 at 150% per
\* period give 975 gross, 675 interest, 135 tax and 9.75 fee
C3_Witness ==
    /\ op = "calculate_regular_savings"
    /\ args.payment = RInt(100) /\ args.rate = RInt(300) /\ args.time = Rat(3, 2)
    /\ args.compounds_per_year = 2 /\ args.tax_rate = RInt(20) /\ args.fee_rate = One
    /\ result = Pair(Rat(3321, 4), Rat(2121, 4))

NonNegativeInputs ==
    /\ RLe(Zero, args.principal) /\ RLe(Zero, args.payment)
    /\ RLe(Zero, args.rate) /\ RLe(Zero, args.time)
    /\ args.compounds_per_year >= 1
    /\ RLe(Zero, args.fee_rate) /\ RLe(Zero, args.tax_rate)

\* C4 as stated: the fee never reduces the principal (or the contributions):
\* for non-negative inputs the returned amount is at least the principal
\* (calculate) or the total contributed (calculate_regular_savings).
C4_FeeSparesPrincipal ==
    /\ (op = "calculate" /\ NonNegativeInputs /\ result.status = "ok") =>
           RLe(args.principal, result.amount)
    /\ (op = "calculate_regular_savings" /\ NonNegativeInputs /\ result.status = "ok") =>
           RLe(TotalContributed, result.amount)

\* C4 amended: tax is charged on the interest only, the fee on the whole
\* gross balance, principal or contributions included: the returned amount is
\* invested * (1 - feeRate/100) + grossInterest * (1 - taxRate/100 -
\* feeRate/100), where invested is the principal (calculate) or the total
\* contributed (calculate_regular_savings).
C4_FeeOnWholeBalance ==
    LET keep_invested == RSub(One, Percent(args.fee_rate))
        keep_interest == RSub(keep_invested, Percent(args.tax_rate))
        Net(invested, gross) ==
            RAdd(RMul(invested, keep_invested), RMul(RSub(gross, invested), keep_interest))
    IN  /\ (op = "calculate" /\ result.status = "ok") =>
               result.amount = Net(args.principal, GrossAmount)
        /\ (op = "calculate_regular_savings" /\ result.status = "ok") =>
               result.amount = Net(TotalContributed, GrossFutureValue)

\* 1000 at a zero rate with a 1% fee comes back as 990
C4_Witness ==
    /\ op = "calculate"
    /\ args.principal = RInt(1000) /\ args.rate = Zero /\ args.time = One
    /\ args.compounds_per_year = 1 /\ args.tax_rate = Zero /\ args.fee_rate = One
    /\ result = Pair(RInt(990), RInt(-10))

\* the policy table of the time solver, first matching row first
PolicyTable(target_amount, principal, rate, n) ==
    IF RLe(principal, Zero) /\ RLt(Zero, target_amount) THEN Infinity
    ELSE IF RLe(principal, Zero) /\ RLe(target_amount, Zero) THEN Years(Zero)
    ELSE IF RLe(target_amount, principal) THEN Years(Zero)
    ELSE IF rate = Zero THEN Infinity
    ELSE IF RLe(BaseOf(rate, n), One) THEN Infinity
    ELSE LogQuotient(RDiv(target_amount, principal), BaseOf(rate, n), n)

\* C5: calculate_time follows the ordered policy table: (1) principal <= 0
\* and target > 0: infinity; (2) principal <= 0 and target <= 0: 0; (3)
\* target <= principal: 0; (4) rate = 0: infinity; (5) 1 + (rate/100)/n <= 1:
\* infinity; (6) otherwise ln(target/principal) / (n * ln(1 + (rate/100)/n)).
C5_PolicyTable ==
    op = "calculate_time" =>
        result = PolicyTable(args.target_amount, args.principal, args.rate,
                             args.compounds_per_year)

\* row (3) wins over row (4): target already met at a zero rate
C5_Witness ==
    /\ op = "calculate_time"
    /\ args.principal = RInt(1000) /\ args.target_amount = RInt(1000) /\ args.rate = Zero
    /\ result = Years(Zero)

\* C6 as stated: infinity whenever rate <= 0 and target > principal, also for
\* a non-positive principal and a non-positive target
C6_NoGrowthIsInfinite ==
    (/\ op = "calculate_time"
     /\ RLe(args.rate, Zero) /\ RLt(args.principal, args.target_amount)) =>
        result = Infinity

\* C6 amended: calculate_time returns infinity whenever rate <= 0, target >
\* principal and target > 0 (for a non-positive target above a non-positive
\* principal it returns 0).
C6_NoGrowthPositiveTarget ==
    (/\ op = "calculate_time"
     /\ RLe(args.rate, Zero) /\ RLt(args.principal, args.target_amount)
     /\ RLt(Zero, args.target_amount)) =>
        result = Infinity

\* a negative rate with a positive principal below the target
C6_Witness ==
    /\ op = "calculate_time"
    /\ args.principal = RInt(1000) /\ args.target_amount = RInt(2000)
    /\ args.rate = RInt(-300)
    /\ result = Infinity

\* C7: calculate_time returns 0 whenever target <= principal, also for a
\* non-positive principal.
C7_TargetAlreadyMet ==
    (op = "calculate_time" /\ RLe(args.target_amount, args.principal)) =>
        result = Years(Zero)

\* a target below a zero principal
C7_Witness ==
    /\ op = "calculate_time"
    /\ args.principal = Zero /\ args.target_amount = RInt(-100)
    /\ result = Years(Zero)

\* C8 as stated: calculate raises nothing for n >= 1 and time >= 0, whatever
\* the principal and the rate
C8_CompoundNeverRaises ==
    (/\ op = "calculate"
     /\ args.compounds_per_year >= 1 /\ RLe(Zero, args.time)) =>
        result.status = "ok"

\* C9 as stated: the goal solvers, both growth series and the simulation
\* return a value for every numeric input with n >= 1
C9_OnlyBatchFails ==
    (/\ op \in {"calculate_principal", "calculate_time", "yearly_growth",
                "yearly_growth_regular_savings", "monte_carlo_simulation"}
     /\ args.compounds_per_year >= 1) =>
        result.status = "ok"

\* C10: with rate = 0, n >= 1 and time >= 0 no formula variant raises, and
\* each returns its degenerate value: calculate the principal less the fee on
\* it, calculate_regular_savings the sum of the payments less the fee on it,
\* calculate_principal the target, calculate_time 0 or infinity, the growth
\* series one point per year.
C10_ZeroRateIsTotal ==
    (/\ op \in {"calculate", "calculate_regular_savings", "calculate_principal",
                "calculate_time", "yearly_growth", "yearly_growth_regular_savings"}
     /\ args.rate = Zero
     /\ args.compounds_per_year >= 1 /\ RLe(Zero, args.time)) =>
        /\ result.status = "ok"
        /\ op = "calculate" =>
               result.amount = RMul(args.principal, RSub(One, Percent(args.fee_rate)))
        /\ op = "calculate_regular_savings" =>
               result.amount = RMul(TotalContributed, RSub(One, Percent(args.fee_rate)))
        /\ op = "calculate_principal" => result.v = args.target_amount
        /\ op = "calculate_time" => result \in {Years(Zero), Infinity}
        /\ op \in {"yearly_growth", "yearly_growth_regular_savings"} =>
               Len(result.growth) = PyInt(args.time) + 1

\* three payments of 100 at a zero rate sum to 300
C10_Witness ==
    /\ op = "calculate_regular_savings"
    /\ args.payment = RInt(100) /\ args.rate = Zero /\ args.time = Rat(3, 2)
    /\ args.compounds_per_year = 2 /\ args.tax_rate = Zero /\ args.fee_rate = Zero
    /\ result = Pair(RInt(300), Zero)

\* C11 as stated: no result of calculate or calculate_regular_savings is
\* obtained with compounds_per_year <= 0: every entry of a list returned by
\* process_batch has compounds_per_year >= 1
C11_CompoundsAtLeastOne ==
    (op = "process_batch" /\ result.status = "ok") =>
        \A i \in DOMAIN result.results : result.results[i].compounds_per_year >= 1

\* C12 as stated: no engine operation changes process-wide state: the global
\* random generator is, after every step, in the state it was in before
C12_GeneratorUntouched == [][np_random_state' = np_random_state]_vars

\* C13: the summary of monte_carlo_simulation is a function of its arguments
\* alone: a call with the same arguments returns the same {mean, min, max,
\* std} (or raises the same error) from whatever state the operations before
\* it left the global random generator in.
C13_SameInputsSameSummary ==
    op = "monte_carlo_simulation" =>
        \A state \in RngStates :
            monte_carlo_simulation(state, args.principal, args.rate, args.time,
                                   args.compounds_per_year, args.tax_rate, args.fee_rate,
                                   args.simulations).summary = result

\* a simulation of two different amounts
C13_Witness ==
    /\ op = "monte_carlo_simulation"
    /\ args.rate = RInt(300) /\ args.simulations = 2
    /\ result.status = "ok" /\ RLt(result.min, result.max)

\* the rates the simulation recorded in args sampled, and the amounts
\* calculate returns for them
SimulatedRates == SampledRates(np_random_state, args.rate, args.simulations).samples
SimulatedAmounts ==
    [i \in DOMAIN SimulatedRates |->
        calculate(args.principal, SimulatedRates[i], args.time, args.compounds_per_year,
                  args.tax_rate, args.fee_rate).amount]

FrequencyTable(n) ==
    CASE n = 1 -> "yearly"
      [] n = 4 -> "quarterly"
      [] n = 12 -> "monthly"
      [] n = 52 -> "weekly"
      [] OTHER -> "per_compound"

\* the requests of the batch recorded in args and the entries returned for them
Requests == args.source.data
Returned == result.results

\* C17 as stated: for a request with payment > 0 the entry's payment frequency
\* is the one the request gives, whatever its value, and is inferred from
\* compounds_per_year (1 yearly, 4 quarterly, 12 monthly, 52 weekly, else
\* per_compound) only when the request gives none
C17_GivenFrequencyKept ==
    (op = "process_batch" /\ result.status = "ok") =>
        \A i \in DOMAIN Returned :
            RLt(Zero, Returned[i].payment) =>
                Returned[i].payment_frequency =
                    IF Requests[i].payment_frequency # Absent
                    THEN Requests[i].payment_frequency
                    ELSE String(FrequencyTable(Returned[i].compounds_per_year))

\* C18: every entry of a batch result carries, and was calculated with, the
\* request's own tax rate when the request gives one (an explicit 0
\* included) and the batch default tax rate when it gives none, and likewise
\* and independently for the fee rate.
C18_ChargeDefaults ==
    (op = "process_batch" /\ result.status = "ok") =>
        \A i \in DOMAIN Returned :
            LET row == Returned[i]
                tax == IF Requests[i].tax_rate = Absent THEN args.tax_rate
                       ELSE Requests[i].tax_rate.num
                fee == IF Requests[i].fee_rate = Absent THEN args.fee_rate
                       ELSE Requests[i].fee_rate.num
                outcome == IF RLt(Zero, row.payment)
                           THEN calculate_regular_savings(row.payment, row.rate, row.time,
                                    row.compounds_per_year, tax, fee)
                           ELSE calculate(row.principal, row.rate, row.time,
                                    row.compounds_per_year, tax, fee)
            IN  /\ row.tax_rate = tax /\ row.fee_rate = fee
                /\ row.number = "real" =>
                       row.amount = outcome.amount /\ row.interest = outcome.interest

\* defaults 20 and 1; a request giving the tax rate 0 and no fee rate is taxed
\* at 0 and charged 1%: 2000 less a fee of 20
C18_Witness ==
    /\ op = "process_batch"
    /\ args.tax_rate = RInt(20) /\ args.fee_rate = One
    /\ Len(Requests) = 1
    /\ Requests[1].tax_rate = Number(Zero) /\ Requests[1].fee_rate = Absent
    /\ Requests[1].payment = Absent
    /\ result.status = "ok"
    /\ Returned[1].tax_rate = Zero /\ Returned[1].fee_rate = One
    /\ Returned[1].amount = RInt(1980) /\ Returned[1].interest = RInt(980)

\* the greatest integer <= x
Floor(x) == Num(x) \div Den(x)

\* C19: for time >= 0 (and n >= 1) both growth series return exactly
\* floor(time) + 1 points; the point at position y + 1 has the year index y,
\* for y = 0, 1, ..., floor(time), and as amount the amount calculate (resp.
\* calculate_regular_savings) returns for time = y and the same other
\* arguments.
C19_GrowthSeries ==
    (/\ op \in {"yearly_growth", "yearly_growth_regular_savings"}
     /\ RLe(Zero, args.time) /\ args.compounds_per_year >= 1) =>
        /\ result.status = "ok"
        /\ Len(result.growth) = Floor(args.time) + 1
        /\ \A y \in 0..Floor(args.time) :
               /\ result.growth[y + 1][1] = y
               /\ result.growth[y + 1][2] =
                      IF op = "yearly_growth"
                      THEN calculate(args.principal, args.rate, RInt(y),
                                     args.compounds_per_year, args.tax_rate,
                                     args.fee_rate).amount
                      ELSE calculate_regular_savings(args.payment, args.rate, RInt(y),
                                     args.compounds_per_year, args.tax_rate,
                                     args.fee_rate).amount

\* a year and a half gives the two points of the years 0 and 1
C19_Witness ==
    /\ op = "yearly_growth"
    /\ args.principal = RInt(1000) /\ args.rate = RInt(10) /\ args.time = Rat(3, 2)
    /\ args.compounds_per_year = 1 /\ args.tax_rate = Zero /\ args.fee_rate = Zero
    /\ result.growth = <<(<<0, RInt(1000)>>), (<<1, RInt(1100)>>)>>

\* C20: for rate > 0, time >= 0 and n >= 1 calculate_principal returns a
\* principal for which calculate, with the same rate, time and n and no tax
\* and no fee, returns the target as amount.
C20_RoundTrip ==
    (/\ op = "calculate_principal"
     /\ RLt(Zero, args.rate) /\ RLe(Zero, args.time) /\ args.compounds_per_year >= 1) =>
        /\ result.status = "ok"
        /\ calculate(result.v, args.rate, args.time, args.compounds_per_year, Zero, Zero)
             = Pair(args.target_amount, RSub(args.target_amount, result.v))

\* half a year at 300% doubles: 1000 are needed for 2000
C20_Witness ==
    /\ op = "calculate_principal"
    /\ args.target_amount = RInt(2000) /\ args.rate = RInt(300) /\ args.time = Rat(1, 2)
    /\ args.compounds_per_year = 1
    /\ result = Value(RInt(1000))

\* a request that cannot be evaluated: one of its values is no number, or
\* the formula its payment selects raises
Unevaluable(calc, default_tax_rate, default_fee_rate) ==
    \E f \in {request_fields(calc, default_tax_rate, default_fee_rate)} :
        \/ \E key \in DOMAIN f : f[key].status # "ok"
        \/ /\ \A key \in DOMAIN f : f[key].status = "ok"
           /\ \E outcome \in
                  {IF RLt(Zero, f.payment.v)
                   THEN calculate_regular_savings(f.payment.v, f.rate.v, f.time.v,
                            Num(f.compounds.v), f.tax.v, f.fee.v)
                   ELSE calculate(f.principal.v, f.rate.v, f.time.v,
                            Num(f.compounds.v), f.tax.v, f.fee.v)} :
                  outcome.status \notin {"ok", "complex"}

\* C15: when menu option 10 is given a source that is missing or is not
\* JSON, or a list with a request that cannot be evaluated, process_batch
\* raises one ValueError and returns no results, and the option leaves the
\* calculation history as it was, also for the requests before the failing
\* one
C15_BatchFailsAsAWhole ==
    [][(/\ op' = "menu_10"
        /\ \/ args'.source.kind \in {"missing", "invalid"}
           \/ \E i \in DOMAIN args'.source.data :
                  Unevaluable(args'.source.data[i], args'.tax_rate, args'.fee_rate))
       => /\ result'.status = "ValueError"
          /\ result'.results = <<>>
          /\ history' = history]_vars

\* option 10 has been given a lump sum followed by a request with a
\* compounding of 0, process_batch has raised, and nothing has been saved
C15_Witness ==
    /\ op = "menu_10"
    /\ args.source = List(<<LumpSum, NoCompounding>>)
    /\ result.status = "ValueError"
    /\ result.results = <<>>
    /\ history = <<>>

\* the amount and the interest of a result are those of the outcome
SameAmounts(row, outcome) ==
    /\ row.amount = outcome.amount
    /\ row.interest = outcome.interest
    /\ (row.number = "complex") <=> (outcome.status = "complex")

\* C16: in a batch and in the loading of a template the payment alone
\* selects the formula: with payment > 0 the amount and the interest are
\* those of calculate_regular_savings for the payment, whatever the
\* principal, and otherwise those of calculate for the principal
C16_ModeByPayment ==
    /\ (op = "menu_10" /\ result.status = "ok") =>
           \A i \in DOMAIN Returned :
               \E row \in {Returned[i]} :
                   IF RLt(Zero, row.payment)
                   THEN SameAmounts(row,
                            calculate_regular_savings(row.payment, row.rate, row.time,
                                row.compounds_per_year, row.tax_rate, row.fee_rate))
                   ELSE SameAmounts(row,
                            calculate(row.principal, row.rate, row.time,
                                row.compounds_per_year, row.tax_rate, row.fee_rate))
    /\ (op = "menu_7" /\ args.template_id \in DOMAIN templates) =>
           IF RLt(Zero, args.payment)
           THEN result = calculate_regular_savings(args.payment, args.rate, args.time,
                             args.compounds_per_year, args.tax_rate, args.fee_rate)
           ELSE result = calculate(args.principal, args.rate, args.time,
                             args.compounds_per_year, args.tax_rate, args.fee_rate)

\* a batch request with a principal of 1000 and a payment of 100 a period
\* for two periods at 100% has given 250 and an interest of 50, as regular
\* savings do: the principal has no part in it
C16_Witness ==
    /\ op = "menu_10"
    /\ args.source = List(<<SavingsWithPrincipal>>)
    /\ args.tax_rate = Zero
    /\ args.fee_rate = Zero
    /\ result.status = "ok"
    /\ Returned[1].amount = RInt(250)
    /\ Returned[1].interest = RInt(50)

\* C21: calculate_principal returns the target itself when the rate is 0,
\* and otherwise, whenever the power (1 + (rate/100)/n)^(n*time) exists and
\* is not 0, the target divided by that power; the result is fixed by
\* target, rate, time and n, the call's only parameters: no tax and no fee
\* has a part in it.
C21_DiscountedTarget ==
    (op = "calculate_principal") =>
        /\ args.rate = Zero => result = Value(args.target_amount)
        /\ (/\ args.rate # Zero
            /\ PowerDefined(Factor, Periods)
            /\ RPow(Factor, Periods) # Zero) =>
               /\ result.status = "ok"
               /\ result.v = RDiv(args.target_amount, RPow(Factor, Periods))
               /\ RMul(result.v, RPow(Factor, Periods)) = args.target_amount

\* one year at 300% quadruples: 4000 discounts to 1000
C21_Witness ==
    /\ op = "calculate_principal"
    /\ args.target_amount = RInt(4000) /\ args.rate = RInt(300) /\ args.time = One
    /\ args.compounds_per_year = 1
    /\ result = Value(RInt(1000))

\* C22: at a rate of 0, without tax and without fee, for every time and
\* every n >= 1, calculate returns the principal and an interest of 0, and
\* calculate_regular_savings returns payment * n * time and an interest of 0.
C22_ZeroRateNoGrowth ==
    (/\ args.rate = Zero /\ args.tax_rate = Zero /\ args.fee_rate = Zero
     /\ args.compounds_per_year >= 1) =>
        /\ op = "calculate" => result = Pair(args.principal, Zero)
        /\ op = "calculate_regular_savings" =>
               result = Pair(RMul(RMul(args.payment, RInt(args.compounds_per_year)),
                                  args.time), Zero)

\* 1000 kept for a year and a half at a rate of 0, two periods a year
C22_Witness ==
    /\ op = "calculate"
    /\ args.principal = RInt(1000) /\ args.rate = Zero /\ args.time = Rat(3, 2)
    /\ args.compounds_per_year = 2 /\ args.tax_rate = Zero /\ args.fee_rate = Zero
    /\ result = Pair(RInt(1000), Zero)

\* C23: for principal >= 0, rate >= 0, time >= 0 and n >= 1, without tax and
\* without fee, calculate returns an amount that is at least the principal
\* and an interest that is at least 0.
C23_MonotonicGrowth ==
    (/\ op = "calculate"
     /\ RLe(Zero, args.principal) /\ RLe(Zero, args.rate) /\ RLe(Zero, args.time)
     /\ args.compounds_per_year >= 1
     /\ args.tax_rate = Zero /\ args.fee_rate = Zero) =>
        /\ result.status = "ok"
        /\ RLe(args.principal, result.amount)
        /\ RLe(Zero, result.interest)

\* half a year at 300% a year, compounded once a year, doubles 1000
C23_Witness ==
    /\ op = "calculate"
    /\ args.principal = RInt(1000) /\ args.rate = RInt(300) /\ args.time = Rat(1, 2)
    /\ args.compounds_per_year = 1 /\ args.tax_rate = Zero /\ args.fee_rate = Zero
    /\ result = Pair(RInt(2000), RInt(1000))

\* the inputs option 5 admits for the time: target >= 0.01, principal >= 0.01,
\* 0 <= rate <= 200, n >= 1
GoalAdmitted ==
    /\ RLe(Rat(1, 100), args.target_amount)
    /\ RLe(Rat(1, 100), args.principal)
    /\ RLe(Zero, args.rate)
    /\ RLe(args.rate, RInt(200))
    /\ args.compounds_per_year >= 1

\* C24: for the inputs option 5 admits the required time is shown in exactly
\* one of two ways, the one that matches what calculate_time returned: as
\* the text 'Infinite (target not reachable ...)' if and only if it returned
\* infinity, and otherwise as the number of years it returned, to two decimals
C24_TimeRendering ==
    (op = "menu_5_time" /\ GoalAdmitted) =>
        /\ result = calculate_time(args.target_amount, args.principal, args.rate,
                                   args.compounds_per_year)
        /\ Len(console) = 2
        /\ console[1] = Line("Goal Result - Required Time")
        /\ IF result = Infinity
           THEN console[2] =
                    Line("Infinite (target not reachable with given rate or principal)")
           ELSE /\ result.kind = "real"
                /\ console[2] = [text |-> "years", hundredths |-> Hundredths(result.v)]

\* a target of 1500 from a principal of 1000 at rate 0 has been asked for:
\* the time is infinite and is shown as the text, not as a number
C24_Witness ==
    /\ op = "menu_5_time"
    /\ args.target_amount = RInt(1500)
    /\ args.principal = RInt(1000)
    /\ args.rate = Zero
    /\ result = Infinity
    /\ console[2].text # "years"

\* the record holds what was entered (or loaded) for the calculation, and the
\* amount and the interest calculated: the payment of regular savings,
\* otherwise the principal
HoldsCalculation(record, entered, calc) ==
    /\ IF RLt(Zero, entered.payment)
       THEN /\ record.payment = entered.payment
            /\ record.payment_frequency = entered.payment_frequency
       ELSE /\ record.principal = entered.principal
            /\ record.payment = Zero
    /\ record.rate = entered.rate
    /\ record.time = entered.time
    /\ record.compounds_per_year = entered.compounds_per_year
    /\ record.tax_rate = entered.tax_rate
    /\ record.fee_rate = entered.fee_rate
    /\ record.amount = calc.amount
    /\ record.interest = calc.interest

\* the record holds the result of a batch request
HoldsResult(record, row) ==
    /\ record.principal = row.principal
    /\ record.payment = row.payment
    /\ record.payment_frequency = row.payment_frequency
    /\ record.rate = row.rate
    /\ record.time = row.time
    /\ record.compounds_per_year = row.compounds_per_year
    /\ record.tax_rate = row.tax_rate
    /\ record.fee_rate = row.fee_rate
    /\ record.amount = row.amount
    /\ record.interest = row.interest

\* option 10 has gone through the whole batch: process_batch returned and
\* every result was saved and shown
BatchCompleted(batch, lines) ==
    /\ batch.status = "ok"
    /\ lines[Len(lines)] = Line("Batch processing complete.")

\* what one pass through the menu does to the history
HistoryStep ==
    /\ Len(history) <= Len(history')
    /\ SubSeq(history', 1, Len(history)) = history
    /\ (\/ op' \in {"menu_1", "menu_2"}
        \/ op' = "menu_7" /\ args'.template_id \in DOMAIN templates) =>
           /\ Len(history') = Len(history) + 1
           /\ HoldsCalculation(history'[Len(history')], args', result')
    /\ (op' = "menu_10" /\ BatchCompleted(result', console')) =>
           /\ Len(history') = Len(history) + Len(args'.source.data)
           /\ Len(result'.results) = Len(args'.source.data)
           /\ \A i \in DOMAIN result'.results :
                  HoldsResult(history'[Len(history) + i], result'.results[i])
    /\ (\/ op' \in {"menu_3", "menu_4", "menu_5_principal", "menu_5_time", "menu_6",
                     "menu_8", "menu_9", "menu_11", "menu_12", "none"}
        \/ op' = "menu_7" /\ args'.template_id \notin DOMAIN templates) =>
           history' = history

\* C25: the history only grows, and only through calculations: options 1
\* and 2 and option 7 with the id of a template append exactly one record
\* with the inputs and the amount and interest calculated; an option 10 that
\* completes appends one record per request of the batch, in the order of
\* the requests; options 3, 4, 5, 6, 8, 9, 11, 12 and option 7 without such
\* an id leave the history as it is; the records there are stay as they are
C25_HistoryGrowsByCalculations == [][HistoryStep]_vars

\* option 1 has added its record, a principal of 1000 grown to 1780, to a
\* history that held one record already
C25_Witness ==
    /\ op = "menu_1"
    /\ Len(history) = 2
    /\ history[2].principal = RInt(1000)
    /\ history[2].amount = RInt(1780)
    /\ history[2].amount = result.amount

\* option 9 has just reported 'History exported to <path>'
ExportReported ==
    /\ op = "menu_9"
    /\ \E i \in DOMAIN console : console[i] = Line("History exported to")

\* the file holds the header and exactly one row per record of the history
HoldsHistory(file, rows) ==
    /\ file.exists
    /\ file.header = Columns
    /\ Len(file.rows) = Len(rows)
    /\ \A id \in DOMAIN rows :
           \E i \in DOMAIN file.rows :
               /\ file.rows[i].id = id
               /\ file.rows[i].principal = rows[id].principal
               /\ file.rows[i].payment = rows[id].payment
               /\ file.rows[i].amount = rows[id].amount
               /\ file.rows[i].interest = rows[id].interest

\* C26: option 9 reports 'History exported to <path>' only when
\* export_to_csv wrote the file: whenever the success is reported the file
\* holds the header and exactly one row per record of the history, and with
\* an empty history no file is written and no success is reported
C26_SuccessOnlyAfterWriting ==
    /\ ExportReported => HoldsHistory(csv_file, history)
    /\ (op = "menu_9" /\ history = <<>>) => ~ExportReported /\ csv_file = NoFile

====
